---- MODULE Spec2Model ----
(***************************************************************************)
(* Model of the voice typing backend (core_voice_typing.py) and of the     *)
(* way gui_voice_typing.py wires it: the four-state StateManager with its  *)
(* observer list, the Recorder thread (silence based segmentation), the    *)
(* Transcriber thread (queue consumer) and the KeyboardListener thread.    *)
(***************************************************************************)
EXTENDS Integers, Sequences, FiniteSets, TLC

VARIABLES
    state,                  \* StateManager._state
    lock,                   \* StateManager._lock is held by a transition call
    cop,                    \* the transition operation called last
    ci,                     \* _notify: index of the next callback to invoke
    seen,                   \* per observer: the state it was last invoked with
    raised,                 \* observers that raised during the current _notify
    recording,              \* Recorder._recording (Event)
    r_terminate,            \* Recorder._terminate (Event)
    process_allowed,        \* Transcriber._process_allowed (Event)
    t_terminate,            \* Transcriber._terminate (Event)
    should_stop,            \* KeyboardListener._should_stop (Event)
    klpc,                   \* KeyboardListener thread: "new", "running", "dead"
    required_silent_chunks, \* Recorder.required_silent_chunks
    rpc,                    \* Recorder.run position ("crashed": left by an exception)
    frames,                 \* Recorder.run local: accumulation buffer
    silent_chunks,          \* Recorder.run local: consecutive silent chunks
    source,                 \* audio stream: per chunk still to come, the amplitudes it may have
    readLog,                \* chunks stream.read has returned so far
    emitted,                \* chunk lists written by _write_wav, in order
    audio_queue,            \* VoiceTypingEngine.audio_queue
    disk,                   \* temp dir: file path -> segment stored in it
    now,                    \* the last time.time() reading, in whole seconds
    tpc,                    \* Transcriber.run position
    audio_file,             \* Transcriber.run local: the dequeued entry
    result,                 \* outcome of the current model.transcribe call
    sink,                   \* texts handed to output_callback, in order
    deqLog,                 \* entries taken from the queue, in order
    inflightDeact           \* INACTIVE was notified during the current engine call

vars == <<state, lock, cop, ci, seen, raised, recording, r_terminate,
          process_allowed, t_terminate, should_stop, klpc,
          required_silent_chunks, rpc, frames, silent_chunks, source, readLog,
          emitted, audio_queue, disk, now, tpc, audio_file, result, sink,
          deqLog, inflightDeact>>

fsmVars   == <<state, lock, cop, ci, seen, raised>>
flagVars  == <<recording, r_terminate, process_allowed, t_terminate, should_stop>>
recVars   == <<required_silent_chunks, rpc, frames, silent_chunks, source,
               readLog, emitted>>
transVars == <<tpc, audio_file, result, sink, deqLog>>

(***************************************************************************)
(* Bounds of the model.                                                    *)
(***************************************************************************)
MaxFrames == 4      \* chunks the audio stream delivers in one run
MaxClock  == 1      \* whole seconds the clock advances in one run

(***************************************************************************)
(* AppState and the StateManager transitions.                              *)
(***************************************************************************)
AppState == {"INACTIVE", "READY", "RECORDING", "PAUSED"}

Ops == {"activate", "deactivate", "start_recording", "pause_recording", "stop_app"}

\* deactivate that moves the state and notifies nobody.
deactivate_silent(s) ==
    IF s \in {"READY", "PAUSED", "RECORDING"} THEN <<"INACTIVE", FALSE>> ELSE <<s, FALSE>>

\* Each operator gives <<new state, _notify is called>> for a call made in s.
activate(s) ==
    IF s = "INACTIVE" THEN <<"READY", TRUE>> ELSE <<s, FALSE>>

deactivate(s) ==
    IF s \in {"READY", "PAUSED", "RECORDING"} THEN <<"INACTIVE", TRUE>> ELSE <<s, FALSE>>

start_recording(s) ==
    IF s \in {"READY", "PAUSED"} THEN <<"RECORDING", TRUE>> ELSE <<s, FALSE>>

pause_recording_loose(s) ==
    IF s \in {"RECORDING", "READY"} THEN <<"PAUSED", TRUE>> ELSE <<s, FALSE>>

pause_recording(s) ==
    IF s = "RECORDING" THEN <<"PAUSED", TRUE>> ELSE <<s, FALSE>>

stop_app(s) == <<"INACTIVE", TRUE>>

Transition(op, s) ==
    CASE op = "activate"        -> activate(s)
      [] op = "deactivate"      -> deactivate(s)
      [] op = "start_recording" -> start_recording(s)
      [] op = "pause_recording" -> pause_recording(s)
      [] op = "stop_app"        -> stop_app(s)

(***************************************************************************)
(* Observers, in the order they register with on_state_change.             *)
(***************************************************************************)
callbacks == <<"recorder", "transcriber", "keyboard", "gui">>

Observers == {callbacks[i] : i \in 1..Len(callbacks)}

\* KeyboardListener._handle_state_change calls Thread.start() when the state
\* is READY and the thread is not alive; a thread that has already run
\* cannot be started again and start() raises RuntimeError.
CallbackRaises(o, s) == o = "keyboard" /\ s = "READY" /\ klpc = "dead"

\* _notify: the index of the callback invoked after callback i.
NotifyNextAbort(i, exc) == IF exc THEN Len(callbacks) + 1 ELSE i + 1

NotifyNext(i, exc) == i + 1

(***************************************************************************)
(* Recorder: configuration and the pure parts of the capture loop.         *)
(***************************************************************************)
silence_threshold == 300

\* A chunk is modelled by the mean absolute amplitude of its samples: the
\* loudest silent chunk and the quietest chunk that is not silent.
Quiet == silence_threshold - 1

Speech == silence_threshold

Levels == {Quiet, Speech}

IsSilent(data) == data < silence_threshold

\* stream.read raising instead of returning a chunk (no amplitude is negative).
AudioReadError == Quiet - silence_threshold

\* Constructor arguments of Recorder; silence_duration is kept in milliseconds.
DefaultConfig == [silence_duration_ms |-> 1000, sample_rate |-> 48000, chunk_size |-> 1024]

\* int(silence_duration * sample_rate / chunk_size)
RequiredSilentChunksCeil(cfg) ==
    (cfg.silence_duration_ms * cfg.sample_rate + 1000 * cfg.chunk_size - 1)
        \div (1000 * cfg.chunk_size)

RequiredSilentChunks(cfg) ==
    (cfg.silence_duration_ms * cfg.sample_rate) \div (1000 * cfg.chunk_size)

\* Python slices xs[:-k] and xs[-k:] for 0 <= k <= len(xs); -0 is 0.
SliceBefore(xs, k) == IF k = 0 THEN <<>> ELSE SubSeq(xs, 1, Len(xs) - k)

SliceLastEmptyAtZero(xs, k) == SubSeq(xs, Len(xs) - k + 1, Len(xs))

SliceLast(xs, k) == IF k = 0 THEN xs ELSE SubSeq(xs, Len(xs) - k + 1, Len(xs))

CountSilent(sc, data) == IF IsSilent(data) THEN sc + 1 ELSE 0

\* The split at the end of one loop iteration: the segments written and
\* queued (none or one) and the buffer kept.
SplitRestart(fr, sc, req) ==
    IF sc >= req /\ Len(fr) > sc
    THEN [segs   |-> IF fr # <<>> THEN <<fr>> ELSE <<>>,
          frames |-> <<>>]
    ELSE [segs |-> <<>>, frames |-> fr]

Split(fr, sc, req) ==
    IF sc >= req /\ Len(fr) > sc
    THEN [segs   |-> IF SliceBefore(fr, sc) # <<>> THEN <<SliceBefore(fr, sc)>> ELSE <<>>,
          frames |-> SliceLast(fr, sc)]
    ELSE [segs |-> <<>>, frames |-> fr]

\* "Flush final": the segments written and queued after the loop.
FlushAlways(fr) == <<fr>>

Flush(fr) == IF fr # <<>> THEN <<fr>> ELSE <<>>

(***************************************************************************)
(* Temp files and the queue.                                               *)
(***************************************************************************)
\* The seconds of one run, which are also the file names it can produce.
Paths == DOMAIN disk

NoSegment == 0

NoEntry == [id |-> NoSegment, path |-> -1]

\* time.time() read by _write_wav: the clock never runs backwards.
ClockReadings == {t \in Paths : t >= now}

\* _write_wav: the file name is the clock rounded to whole seconds.
FilePath(t) == t

\* segs holds at most one chunk list: write it, then put its path.
WriteAndPut(segs) ==
    IF segs = <<>>
    THEN UNCHANGED <<emitted, disk, audio_queue, now>>
    ELSE \E t \in ClockReadings :
         LET id == Len(emitted) + 1 IN
         /\ now' = t
         /\ emitted' = Append(emitted, segs[1])
         /\ disk' = [disk EXCEPT ![FilePath(t)] = id]
         /\ audio_queue' = Append(audio_queue, [id |-> id, path |-> FilePath(t)])

\* queue.Queue.get: the entry taken and the queue left.
QueueGetNewest(q) == [item |-> q[Len(q)], rest |-> SubSeq(q, 1, Len(q) - 1)]

QueueGet(q) == [item |-> Head(q), rest |-> Tail(q)]

\* Transcriber.run: what output_callback has received after one engine call.
ForwardUnlessTerminated(snk, out, text, term) ==
    IF out = "text" /\ ~term THEN Append(snk, text) ELSE snk

Forward(snk, out, text, term) ==
    IF out = "text" THEN Append(snk, text) ELSE snk

\* Transcriber.run: the disk after the engine call on the file at path ended
\* with outcome out.
RemoveUnlessRaised(dsk, path, out) ==
    IF out = "error" THEN dsk ELSE [dsk EXCEPT ![path] = NoSegment]

Remove(dsk, path, out) == [dsk EXCEPT ![path] = NoSegment]

(***************************************************************************)
(* State change callbacks (the bodies of the _handle_state_change methods).*)
(***************************************************************************)
Recorder_handle_state_change(s) ==
    /\ recording' = (s = "RECORDING")
    /\ r_terminate' = (r_terminate \/ s = "INACTIVE")
    /\ UNCHANGED <<process_allowed, t_terminate, should_stop, klpc, inflightDeact>>

Transcriber_handle_state_change(s) ==
    /\ process_allowed' = (s = "RECORDING")
    /\ t_terminate' = (t_terminate \/ s = "INACTIVE")
    /\ inflightDeact' = (inflightDeact \/ (s = "INACTIVE" /\ tpc = "call"))
    /\ UNCHANGED <<recording, r_terminate, should_stop, klpc>>

\* if READY and not is_alive(): start() (raises for a thread that has run,
\* see CallbackRaises); elif INACTIVE: _should_stop.set()
KeyboardListener_handle_state_change(s) ==
    /\ klpc' = IF s = "READY" /\ klpc = "new" THEN "running" ELSE klpc
    /\ should_stop' = IF s = "READY" /\ klpc # "running" THEN should_stop
                      ELSE (should_stop \/ s = "INACTIVE")
    /\ UNCHANGED <<recording, r_terminate, process_allowed, t_terminate, inflightDeact>>

\* VoiceTypingGUI._on_state_change only schedules a widget update.
GUI_on_state_change(s) ==
    UNCHANGED <<recording, r_terminate, process_allowed, t_terminate, should_stop,
                klpc, inflightDeact>>

Invoke(o, s) ==
    CASE o = "recorder"    -> Recorder_handle_state_change(s)
      [] o = "transcriber" -> Transcriber_handle_state_change(s)
      [] o = "keyboard"    -> KeyboardListener_handle_state_change(s)
      [] o = "gui"         -> GUI_on_state_change(s)

(***************************************************************************)
(* A transition call: take the lock, test and assign _state; then _notify  *)
(* invokes the callbacks one by one; then the lock is released.            *)
(***************************************************************************)
Call(op) ==
    /\ ~lock
    /\ cop' = op
    /\ state' = Transition(op, state)[1]
    /\ lock' = Transition(op, state)[2]
    /\ ci' = IF Transition(op, state)[2] THEN 1 ELSE 0
    /\ UNCHANGED <<seen, raised, flagVars, klpc, recVars, audio_queue, disk, now,
                   transVars, inflightDeact>>

Notify ==
    /\ lock
    /\ ci \in 1..Len(callbacks)
    /\ LET o == callbacks[ci] IN
         /\ seen' = [seen EXCEPT ![o] = state]
         /\ raised' = IF CallbackRaises(o, state) THEN raised \cup {o} ELSE raised
         /\ ci' = NotifyNext(ci, CallbackRaises(o, state))
         /\ Invoke(o, state)
    /\ UNCHANGED <<state, lock, cop, recVars, audio_queue, disk, now, transVars>>

Return ==
    /\ lock
    /\ ci > Len(callbacks)
    /\ lock' = FALSE
    /\ ci' = 0
    /\ raised' = {}
    /\ UNCHANGED <<state, cop, seen, flagVars, klpc, recVars, audio_queue, disk, now,
                   transVars, inflightDeact>>

(***************************************************************************)
(* KeyboardListener.run                                                    *)
(***************************************************************************)
KeyboardListener_run ==
    /\ klpc = "running"
    /\ should_stop
    /\ klpc' = "dead"
    /\ UNCHANGED <<fsmVars, flagVars, recVars, audio_queue, disk, now, transVars,
                   inflightDeact>>

(***************************************************************************)
(* Recorder.run                                                            *)
(***************************************************************************)
\* The position after the tests at the loop head.
LoopHeadNoFlush(term, rec) == IF term THEN "done" ELSE IF ~rec THEN "sleep" ELSE "read"

LoopHead(term, rec) == IF term THEN "flush" ELSE IF ~rec THEN "sleep" ELSE "read"

\* while not self._terminate.is_set(): if not self._recording.is_set(): ...
Recorder_check ==
    /\ rpc = "loop"
    /\ rpc' = LoopHead(r_terminate, recording)
    /\ UNCHANGED <<fsmVars, flagVars, klpc, required_silent_chunks, frames,
                   silent_chunks, source, readLog, emitted, audio_queue, disk, now,
                   transVars, inflightDeact>>

\* time.sleep(0.05); continue
Recorder_sleep ==
    /\ rpc = "sleep"
    /\ rpc' = "loop"
    /\ UNCHANGED <<fsmVars, flagVars, klpc, required_silent_chunks, frames,
                   silent_chunks, source, readLog, emitted, audio_queue, disk, now,
                   transVars, inflightDeact>>

\* stream.read, append, silence detection and the split; an exception of
\* stream.read is caught nowhere and leaves run().
Recorder_read ==
    /\ rpc = "read"
    /\ source # <<>>
    /\ \E data \in Head(source) :
       IF data = AudioReadError
       THEN /\ source' = Tail(source)
            /\ rpc' = "crashed"
            /\ UNCHANGED <<readLog, silent_chunks, frames, emitted, disk,
                           audio_queue, now>>
       ELSE LET sc == CountSilent(silent_chunks, data)
                sp == Split(Append(frames, data), sc, required_silent_chunks)
            IN /\ source' = Tail(source)
               /\ readLog' = Append(readLog, data)
               /\ silent_chunks' = sc
               /\ frames' = sp.frames
               /\ WriteAndPut(sp.segs)
               /\ rpc' = "loop"
    /\ UNCHANGED <<fsmVars, flagVars, klpc, required_silent_chunks, transVars,
                   inflightDeact>>

\* "Flush final" after the loop; the thread then ends.
Recorder_flush ==
    /\ rpc = "flush"
    /\ WriteAndPut(Flush(frames))
    /\ rpc' = "done"
    /\ UNCHANGED <<fsmVars, flagVars, klpc, required_silent_chunks, frames,
                   silent_chunks, source, readLog, transVars, inflightDeact>>

(***************************************************************************)
(* Transcriber.run                                                         *)
(***************************************************************************)
\* while not self._terminate.is_set(): if not self._process_allowed.is_set(): sleep
Transcriber_check ==
    /\ tpc = "loop"
    /\ tpc' = IF t_terminate THEN "done" ELSE IF ~process_allowed THEN "loop" ELSE "get"
    /\ UNCHANGED <<fsmVars, flagVars, klpc, recVars, audio_queue, disk, now,
                   audio_file, result, sink, deqLog, inflightDeact>>

\* audio_queue.get(timeout=0.1): an entry, or queue.Empty and back to the loop
Transcriber_get ==
    /\ tpc = "get"
    /\ IF audio_queue # <<>>
       THEN /\ audio_file' = QueueGet(audio_queue).item
            /\ audio_queue' = QueueGet(audio_queue).rest
            /\ deqLog' = Append(deqLog, QueueGet(audio_queue).item)
            /\ tpc' = "call"
       ELSE /\ tpc' = "loop"
            /\ UNCHANGED <<audio_file, audio_queue, deqLog>>
    /\ UNCHANGED <<fsmVars, flagVars, klpc, recVars, disk, now, result, sink,
                   inflightDeact>>

\* What model.transcribe can do with the file: raise, or return text that is
\* empty or not after strip(). A missing file makes the engine raise.
Outcomes(path) ==
    IF disk[path] = NoSegment THEN {"error"} ELSE {"text", "empty", "error"}

\* model.transcribe(...) and output_callback(text); the text is identified by
\* the segment whose audio the file holds.
Transcriber_transcribe ==
    /\ tpc = "call"
    /\ \E out \in Outcomes(audio_file.path) :
         /\ result' = out
         /\ sink' = Forward(sink, out, disk[audio_file.path], t_terminate)
    /\ tpc' = "cleanup"
    /\ UNCHANGED <<fsmVars, flagVars, klpc, recVars, audio_queue, disk, now,
                   audio_file, deqLog, inflightDeact>>

\* finally: os.remove(audio_file); an exception of the engine then leaves run()
Transcriber_cleanup ==
    /\ tpc = "cleanup"
    /\ disk' = Remove(disk, audio_file.path, result)
    /\ tpc' = IF result = "error" THEN "crashed" ELSE "loop"
    /\ audio_file' = NoEntry
    /\ result' = "none"
    /\ inflightDeact' = FALSE
    /\ UNCHANGED <<fsmVars, flagVars, klpc, recVars, audio_queue, now, sink, deqLog>>

(***************************************************************************)
(* Specifications.                                                         *)
(***************************************************************************)
\* The state after VoiceTypingGUI.__init__, for a Recorder built from cfg, an
\* audio stream whose i-th chunk will have an amplitude in src[i], and a run
\* that lasts from second 0 to second lastSecond.
InitWith(cfg, src, lastSecond) ==
    /\ state = "INACTIVE"
    /\ lock = FALSE
    /\ cop = "none"
    /\ ci = 0
    /\ seen = [o \in Observers |-> "NONE"]
    /\ raised = {}
    /\ recording = FALSE
    /\ r_terminate = FALSE
    /\ process_allowed = FALSE
    /\ t_terminate = FALSE
    /\ should_stop = FALSE
    /\ klpc = "new"
    /\ required_silent_chunks = RequiredSilentChunks(cfg)
    /\ rpc = "loop"
    /\ frames = <<>>
    /\ silent_chunks = 0
    /\ source = src
    /\ readLog = <<>>
    /\ emitted = <<>>
    /\ audio_queue = <<>>
    /\ disk = [p \in 0..lastSecond |-> NoSegment]
    /\ now = 0
    /\ tpc = "loop"
    /\ audio_file = NoEntry
    /\ result = "none"
    /\ sink = <<>>
    /\ deqLog = <<>>
    /\ inflightDeact = FALSE

\* Constructor arguments scaled down so that few chunks make a silence.
SmallConfigs == {[silence_duration_ms |-> 1000, sample_rate |-> 3, chunk_size |-> 2]}

\* Any n chunks.
AnyStream(n) == [i \in 1..n |-> Levels]

Init == \E cfg \in SmallConfigs : InitWith(cfg, AnyStream(MaxFrames), MaxClock)

Next ==
    \/ \E op \in Ops : Call(op)
    \/ Notify
    \/ Return
    \/ KeyboardListener_run
    \/ Recorder_check
    \/ Recorder_sleep
    \/ Recorder_read
    \/ Recorder_flush
    \/ Transcriber_check
    \/ Transcriber_get
    \/ Transcriber_transcribe
    \/ Transcriber_cleanup

Spec == Init /\ [][Next]_vars

(***************************************************************************)
(* The Recorder with its callers only: the FSM, its observers and the      *)
(* capture loop. The Transcriber shares no variable the Recorder reads.    *)
(***************************************************************************)
NextRecorder ==
    \/ \E op \in Ops : Call(op)
    \/ Notify
    \/ Return
    \/ KeyboardListener_run
    \/ Recorder_check
    \/ Recorder_sleep
    \/ Recorder_read
    \/ Recorder_flush

\* n chunks, each of amplitude level.
Chunks(n, level) == [i \in 1..n |-> level]

Script(chunks) == [i \in 1..Len(chunks) |-> {chunks[i]}]

\* 100 speech chunks, 46 silent chunks, 20 speech chunks; default constructor
\* arguments.
ScenarioC7 == Chunks(100, Speech) \o Chunks(46, Quiet) \o Chunks(20, Speech)

InitC7 == InitWith(DefaultConfig, Script(ScenarioC7), MaxClock)

SpecC7 == InitC7 /\ [][NextRecorder]_vars

\* n silent chunks, m speech chunks, k silent chunks.
Pattern(n, m, k) == Chunks(n, Quiet) \o Chunks(m, Speech) \o Chunks(k, Quiet)

MaxLead == 1        \* leading silent chunks
MaxSpeech == 2      \* speech chunks
MaxExtra == 2       \* trailing silent chunks beyond the required count

SegConfigs == {[silence_duration_ms |-> 1000, sample_rate |-> 3, chunk_size |-> 2],
               [silence_duration_ms |-> 1000, sample_rate |-> 2, chunk_size |-> 1]}

InitSeg ==
    \E cfg \in SegConfigs, n \in 0..MaxLead, m \in 1..MaxSpeech, x \in 0..MaxExtra :
        InitWith(cfg, Script(Pattern(n, m, RequiredSilentChunks(cfg) + x)), MaxClock)

SpecSeg == InitSeg /\ [][NextRecorder]_vars

(***************************************************************************)
(* Shutdown with a backlog: the callers activate, start recording and call *)
(* VoiceTypingEngine.shutdown once three segments wait in the queue.       *)
(***************************************************************************)
shutdown == Call("stop_app")

ShutdownWithBacklog ==
    /\ state = "RECORDING"
    /\ Len(audio_queue) = 3
    /\ shutdown

NextBacklog ==
    \/ Call("activate")
    \/ Call("start_recording")
    \/ ShutdownWithBacklog
    \/ Notify
    \/ Return
    \/ KeyboardListener_run
    \/ Recorder_check
    \/ Recorder_sleep
    \/ Recorder_read
    \/ Recorder_flush
    \/ Transcriber_check
    \/ Transcriber_get
    \/ Transcriber_transcribe
    \/ Transcriber_cleanup

BacklogStream ==
    <<Speech, Quiet, Speech, Quiet, Speech, Quiet, Speech>>

\* Four segments can be written, each in a second of its own.
InitBacklog == \E cfg \in SmallConfigs : InitWith(cfg, Script(BacklogStream), 3)

SpecBacklog == InitBacklog /\ [][NextBacklog]_vars

(***************************************************************************)
(* A failing audio device: every stream.read may raise instead of          *)
(* returning a chunk.                                                      *)
(***************************************************************************)
FaultyStream(n) == [i \in 1..n |-> Levels \cup {AudioReadError}]

InitReadError ==
    \E cfg \in SmallConfigs : InitWith(cfg, FaultyStream(MaxFrames), MaxClock)

SpecReadError == InitReadError /\ [][Next]_vars

(***************************************************************************)
(* Termination: a short stream, and every thread that can take a step      *)
(* eventually takes it (the notifying caller, the two workers; a pending   *)
(* engine call returns).                                                   *)
(***************************************************************************)
MaxStopFrames == 2

InitStop ==
    \E cfg \in SmallConfigs : InitWith(cfg, AnyStream(MaxStopFrames), MaxClock)

Fairness ==
    /\ WF_vars(Notify)
    /\ WF_vars(Return)
    /\ WF_vars(Recorder_check)
    /\ WF_vars(Recorder_sleep)
    /\ WF_vars(Recorder_read)
    /\ WF_vars(Recorder_flush)
    /\ WF_vars(Transcriber_check)
    /\ WF_vars(Transcriber_get)
    /\ WF_vars(Transcriber_transcribe)
    /\ WF_vars(Transcriber_cleanup)

SpecStop == InitStop /\ [][Next]_vars /\ Fairness

(***************************************************************************)
(* Recorders built from any constructor arguments: a silence of one chunk, *)
(* of two chunks, of zero duration and shorter than a chunk.               *)
(***************************************************************************)
AnyConfigs ==
    SmallConfigs \cup SegConfigs \cup
    {[silence_duration_ms |-> 0, sample_rate |-> 3, chunk_size |-> 2],
     [silence_duration_ms |-> 500, sample_rate |-> 3, chunk_size |-> 2]}

InitConfig ==
    \E cfg \in AnyConfigs : InitWith(cfg, AnyStream(MaxFrames), MaxClock)

SpecConfig == InitConfig /\ [][NextRecorder]_vars

(***************************************************************************)
(* Claims.                                                                 *)
(***************************************************************************)
\* The transition table as the specification states it.
TableDest(s, op) ==
    CASE op = "activate" /\ s = "INACTIVE"                           -> "READY"
      [] op = "deactivate" /\ s \in {"READY", "PAUSED", "RECORDING"} -> "INACTIVE"
      [] op = "start_recording" /\ s \in {"READY", "PAUSED"}         -> "RECORDING"
      [] op = "pause_recording" /\ s = "RECORDING"                   -> "PAUSED"
      [] op = "stop_app"                                             -> "INACTIVE"
      [] OTHER                                                       -> s

\* A step in which a transition operation is called.
IsCall == ~lock /\ (lock' \/ cop' # cop)

\* C1: the FSM state is always one of the four states; every call moves it to
\* the destination the table gives for the state it is called in (the state
\* itself when the call is not in the table), and nothing else moves it, so
\* the state is the destination of the last legal transition called.
C1_StateFollowsTable ==
    [][ /\ state \in AppState
        /\ state' \in AppState
        /\ IsCall => state' = TableDest(state, cop')
        /\ ~IsCall => state' = state ]_vars

\* C1 witness: activate was called in PAUSED and skipped.
C1_Witness == state = "PAUSED" /\ cop = "activate" /\ ~lock

\* C2: observers are invoked only while the lock is held, each with the
\* current state, the state does not move while the lock is held, and when
\* the call returns every observer has been invoked with the new state, also
\* after an observer raised.
C2_ObserversNotifiedUnderLock ==
    [][ /\ seen' # seen =>
             /\ lock /\ lock'
             /\ \E o \in Observers : seen' = [seen EXCEPT ![o] = state]
        /\ lock => state' = state
        /\ (lock /\ ~lock') => \A o \in Observers : seen[o] = state ]_vars

\* C2 witness: about to return, an observer has raised and all have been invoked.
C2_Witness ==
    /\ lock
    /\ ci > Len(callbacks)
    /\ raised # {}
    /\ \A o \in Observers : seen[o] = state

\* C3: whenever the FSM is RECORDING, also after it has been INACTIVE, both
\* workers are alive and have not been told to terminate.
C3_WorkersSurviveInactive ==
    (state = "RECORDING" /\ ~lock) =>
        /\ ~r_terminate /\ rpc \notin {"flush", "done"}
        /\ ~t_terminate /\ tpc # "done"

\* Every segment was written to a file of its own.
DistinctPaths == \A i, j \in 1..Len(deqLog \o audio_queue) :
    i # j => (deqLog \o audio_queue)[i].path # (deqLog \o audio_queue)[j].path

\* C4: shutdown was called with three segments queued while RECORDING; once it
\* has returned and both workers have stopped (the Transcriber by leaving its
\* loop, every segment in a file of its own), no segment is left in the queue
\* and no segment file is left on disk.
C4_NoSegmentLeftAfterShutdown ==
    (cop = "stop_app" /\ ~lock /\ rpc = "done" /\ tpc = "done" /\ DistinctPaths) =>
        /\ audio_queue = <<>>
        /\ \A p \in Paths : disk[p] = NoSegment

NoDuplicates(xs) == \A i, j \in 1..Len(xs) : i # j => xs[i] # xs[j]

\* C5: no step aborts an engine call; when a call during which INACTIVE was
\* notified ends with non-empty text, the sink receives that text in that
\* step; the sink receives nothing outside the end of an engine call and
\* never the same segment's text twice.
C5_InflightResultDeliveredOnce ==
    [][ /\ tpc = "call" => (tpc' \in {"call", "cleanup"} /\ audio_file' = audio_file)
        /\ (tpc = "call" /\ tpc' = "cleanup" /\ inflightDeact /\ result' = "text") =>
               sink' = Append(sink, disk[audio_file.path])
        /\ tpc # "call" => sink' = sink
        /\ NoDuplicates(sink') ]_vars

\* C5 witness: INACTIVE was notified during the engine call and its text has
\* just been delivered.
C5_Witness ==
    /\ tpc = "cleanup"
    /\ inflightDeact
    /\ result = "text"
    /\ sink # <<>>
    /\ sink[Len(sink)] = audio_file.id

\* C6: the i-th entry dequeued is the i-th entry enqueued (so none is dequeued
\* twice), and the sink receives texts in capture order.
C6_FifoOrder ==
    /\ \A i \in 1..Len(deqLog) : deqLog[i].id = i
    /\ \A i, j \in 1..Len(sink) : i < j => sink[i] < sink[j]

\* C6 witness: two segments were dequeued and delivered while a third waits.
C6_Witness == Len(deqLog) >= 2 /\ Len(sink) >= 2 /\ audio_queue # <<>>

FlushDone == rpc = "done"

BeforeFlush == rpc \in {"loop", "sleep", "read"}

\* C7 as stated: after the whole scenario and the shutdown, two segments were
\* emitted, of 100 and of 20 chunks.
C7_FinalFlushOf20 ==
    (FlushDone /\ source = <<>>) =>
        /\ Len(emitted) = 2
        /\ Len(emitted[1]) = 100
        /\ Len(emitted[2]) = 20

\* C7 amended: 46 chunks are required; before the flush nothing is emitted
\* until the 46th silent chunk is read and from then on exactly the 100
\* speech chunks; the final flush after the whole scenario emits the 46
\* silent chunks kept by the split followed by the 20 speech chunks.
C7_FinalFlushOf66 ==
    /\ required_silent_chunks = 46
    /\ BeforeFlush =>
         emitted = IF Len(readLog) >= 146 THEN <<Chunks(100, Speech)>> ELSE <<>>
    /\ (FlushDone /\ source = <<>>) =>
         emitted = <<Chunks(100, Speech), Chunks(46, Quiet) \o Chunks(20, Speech)>>

\* C7 witness: the scenario was read to its end and the flush is done.
C7_Witness == FlushDone /\ source = <<>> /\ Len(emitted) = 2

\* The chunks of the stream, read or still to come (scripted streams).
WholeStream == readLog \o [i \in 1..Len(source) |-> CHOOSE x \in source[i] : TRUE]

\* C8: for a stream of n silent, m speech and k >= required silent chunks,
\* before any flush nothing is emitted until the required silence is read and
\* from then on exactly one segment, the n + m chunks before the silence.
C8_OneSegmentPerUtterance ==
    \A n \in 0..MaxLead, m \in 1..MaxSpeech, x \in 0..MaxExtra :
        (BeforeFlush /\ WholeStream = Pattern(n, m, required_silent_chunks + x)) =>
            emitted = IF Len(readLog) >= n + m + required_silent_chunks
                      THEN <<Chunks(n, Quiet) \o Chunks(m, Speech)>>
                      ELSE <<>>

\* C8 witness: leading silence, speech and more than twice the required
\* silence were read without a flush, and one segment was emitted.
C8_Witness ==
    /\ BeforeFlush
    /\ source = <<>>
    /\ Len(readLog) > 2 * required_silent_chunks + 2
    /\ readLog[1] = Quiet
    /\ Len(emitted) = 1

\* C9: no chunk list written and queued is empty.
C9_NoEmptySegment ==
    /\ \A i \in 1..Len(emitted) : emitted[i] # <<>>
    /\ \A i \in 1..Len(audio_queue) : audio_queue[i].id \in 1..Len(emitted)

\* C9 witness: a split and the final flush each queued a segment.
C9_Witness == FlushDone /\ Len(emitted) >= 2

\* C10: an engine error never ends the Transcriber thread.
C10_TranscriberSurvivesEngineError == tpc # "crashed"

\* The reads of stream.read that raised so far, under SpecReadError: every
\* call consumes one element of the stream of MaxFrames elements, and only a
\* returned chunk is logged.
FailedReads == MaxFrames - Len(source) - Len(readLog)

\* C11: a failing audio read does not stop the Recorder: after one or two
\* failed reads the Recorder is still running (it stops, after flushing, only
\* at the third consecutive failure).
C11_ReadFailureTolerated == FailedReads \in {1, 2} => rpc # "crashed"

\* VoiceTypingEngine.shutdown returns: its stop_app call releases the lock.
ShutdownReturns == cop = "stop_app" /\ lock /\ ~lock'

\* C12: shutdown does not return while an engine call is in flight.
C12_ShutdownWaitsForEngineCall == [][ShutdownReturns => tpc # "call"]_vars

\* The transcription attempt of the i-th dequeued segment is over.
AttemptOver(i) == i < Len(deqLog) \/ tpc \notin {"call", "cleanup"}

\* C13: once the transcription attempt of a dequeued segment is over, whether
\* the engine returned text, returned nothing or raised, the file of that
\* segment is no longer on disk.
C13_FileRemovedAfterAttempt ==
    \A i \in 1..Len(deqLog) :
        AttemptOver(i) => disk[deqLog[i].path] # deqLog[i].id

\* C13 witness: one attempt returned text, a later one raised and ended the
\* thread, and no file is left.
C13_Witness ==
    /\ tpc = "crashed"
    /\ Len(deqLog) >= 2
    /\ sink # <<>>
    /\ \A p \in Paths : disk[p] = NoSegment

\* C14: the Recorder has flushed when it idles in PAUSED: its accumulation
\* buffer is empty, so nothing captured before the pause can join what is
\* captured after the resume.
C14_BufferFlushedOnPause == (state = "PAUSED" /\ rpc = "sleep") => frames = <<>>

\* C15: a chunk is read from the audio source and appended only in a step
\* taken while the state is RECORDING.
C15_ReadsOnlyWhileRecording == [][readLog' # readLog => state = "RECORDING"]_vars

\* C16: an entry is taken from the queue only in a step taken while the state
\* is RECORDING.
C16_DequeuesOnlyWhileRecording == [][deqLog' # deqLog => state = "RECORDING"]_vars

\* q is an initial part of r.
IsPrefix(q, r) == Len(q) <= Len(r) /\ \A i \in 1..Len(q) : q[i] = r[i]

\* C17: in a step taken while the state is and stays PAUSED, every queued
\* entry stays in the queue at its position (the queue only grows at its
\* tail).
C17_QueueKeptWhilePaused ==
    [][(state = "PAUSED" /\ state' = "PAUSED") => IsPrefix(audio_queue, audio_queue')]_vars

\* A transition into INACTIVE has been made and its notification is running.
EntersInactive == state = "INACTIVE" /\ lock

\* The Recorder has left run(), or waits in a read that never returns.
RecorderStopped == rpc = "done" \/ (rpc = "read" /\ source = <<>>)

\* The Transcriber has left run().
TranscriberStopped == tpc \in {"done", "crashed"}

\* C18: after the FSM enters INACTIVE both workers eventually stop; the
\* Transcriber leaves its loop only at the loop head, with no engine call in
\* flight, and the step in which the Recorder stops emits its non-empty buffer
\* as one last segment.
C18_WorkersStopAfterInactive ==
    /\ [][(tpc' = "done" /\ tpc # "done") =>
            (tpc = "loop" /\ audio_file = NoEntry /\ t_terminate)]_vars
    /\ [][(rpc' = "done" /\ rpc # "done") =>
            /\ r_terminate
            /\ frames # <<>> =>
                  /\ emitted' = Append(emitted, frames)
                  /\ Len(audio_queue') = Len(audio_queue) + 1]_vars
    /\ EntersInactive ~> (RecorderStopped /\ TranscriberStopped)

\* C18 witness: INACTIVE was entered, both workers have stopped, the Recorder
\* after a final segment and the Transcriber after an engine call that was in
\* flight.
C18_Witness ==
    /\ state = "INACTIVE"
    /\ rpc = "done"
    /\ tpc = "done"
    /\ emitted # <<>>
    /\ sink # <<>>
    /\ audio_queue # <<>>

\* C19: no Recorder reads audio in its capture loop with a required silent
\* chunk count below 1 (such a configuration is rejected by the constructor).
C19_ZeroSilenceRejected == rpc = "read" => required_silent_chunks >= 1

\* The entries alive: the one being transcribed, then the queued ones.
Alive ==
    (IF tpc \in {"call", "cleanup"} THEN <<audio_file>> ELSE <<>>) \o audio_queue

\* C20: two entries alive at the same time name different files.
C20_AliveFilesDistinct ==
    \A i, j \in 1..Len(Alive) : i # j => Alive[i].path # Alive[j].path

RECURSIVE Concat(_)
\* The segments of segs one after the other.
Concat(segs) == IF segs = <<>> THEN <<>> ELSE Head(segs) \o Concat(Tail(segs))

\* The Recorder has not reached its final flush.
InLoop == rpc \in {"loop", "sleep", "read", "flush"}

\* A step of the loop body that cuts a segment.
SplitStep == rpc = "read" /\ emitted' # emitted

\* C21: in the capture loop the segments emitted so far followed by the buffer
\* are the chunks read so far, and the silent counter never exceeds the buffer
\* length; a split emits the buffer up to and including its last speech chunk
\* and keeps exactly the silent chunks that follow it.
C21_FramesConserved ==
    /\ [](InLoop => Concat(emitted) \o frames = readLog)
    /\ [](silent_chunks <= Len(frames))
    /\ [][SplitStep =>
            /\ Len(emitted') = Len(emitted) + 1
            /\ emitted'[Len(emitted')] \o frames' = Append(frames, readLog'[Len(readLog')])
            /\ ~IsSilent(emitted'[Len(emitted')][Len(emitted'[Len(emitted')])])
            /\ Len(frames') = silent_chunks'
            /\ \A i \in 1..Len(frames') : IsSilent(frames'[i])]_vars

\* C21 witness: after a split the buffer holds the silent chunks kept and the
\* Recorder is about to read on.
C21_Witness ==
    /\ state = "RECORDING"
    /\ rpc = "read"
    /\ emitted # <<>>
    /\ frames # <<>>
    /\ silent_chunks = Len(frames)
    /\ required_silent_chunks > 0

\* The gating flags of both workers say RECORDING exactly when s is RECORDING.
FlagsAgree(s) == recording = (s = "RECORDING") /\ process_allowed = (s = "RECORDING")

\* A step that notifies observer o of INACTIVE.
NotifiesInactive(o) ==
    lock /\ state = "INACTIVE" /\ ci \in 1..Len(callbacks) /\ callbacks[ci] = o /\ ci' = ci + 1

\* C22: whenever no transition call holds the lock, _recording and
\* _process_allowed are set exactly when the state is RECORDING; the flags
\* change only while a call holds the lock; and a _terminate flag, clear at the
\* start, is set only by a notification of INACTIVE to its worker.
C22_FlagsAgreeWithState ==
    /\ ~r_terminate /\ ~t_terminate
    /\ [](~lock => FlagsAgree(state))
    /\ [][ /\ <<recording, process_allowed>>' # <<recording, process_allowed>> => lock
           /\ (r_terminate' /\ ~r_terminate) => NotifiesInactive("recorder")
           /\ (t_terminate' /\ ~t_terminate) => NotifiesInactive("transcriber") ]_vars

\* C22 witness: calls from several threads have ended in pause_recording, the
\* lock is free and both flags are clear in PAUSED with the workers alive.
C22_Witness ==
    /\ ~lock
    /\ state = "PAUSED"
    /\ cop = "pause_recording"
    /\ FlagsAgree("PAUSED")
    /\ ~r_terminate /\ ~t_terminate
    /\ readLog # <<>>

=============================================================================
